---- MODULE Spec2Model ----
(***************************************************************************)
(* Model of the ClimateX forecasting backend:                              *)
(*   backend/weather_forecast_fixed.py  (load_data, simple_train_models,   *)
(*       simple_generate_forecast, run_forecast, get_weather_condition)    *)
(*   backend/weather_forecast.py        (generate_forecast, the variant    *)
(*       without a start date)                                             *)
(*   backend/app.py                     (get_forecast)                     *)
(*                                                                         *)
(* Representation.                                                         *)
(*   Timestamps are whole days since 1970-01-01 (the series is daily);     *)
(*   NaT is the not-a-time value.  A "YYYY-MM-DD" string is the tuple      *)
(*   <<y, m, d>>, the empty string is <<>>.                                *)
(*   Predicted and observed temperatures are whole degrees; avg_temp,      *)
(*   the only halved quantity, is kept in half degrees.  The argument of   *)
(*   get_weather_condition is a float record: a number in half degrees,    *)
(*   NaN, or an infinity.                                                  *)
(*   A DataFrame is kept column-wise and sparse: its row count, its index  *)
(*   (first date and the rows followed by a missing calendar day), its     *)
(*   columns, and per column the rows holding a null.                      *)
(***************************************************************************)
EXTENDS Integers, Sequences, FiniteSets, TLC

\* ------------------------------------------------------------------ bounds
\* longest series of the forecasting runs
MaxSeries == 3
\* largest forecast horizon requested
MaxDays == 3
\* longest table of the small load_data inputs
MaxRows == 62
\* rows beyond the point where the test partition reaches its cap
MaxOver == 6
\* nulls of a column sit in its first MaxNullPos rows
MaxNullPos == 3

\* ---------------------------------------------------------------- helpers
Min2(a, b) == IF a <= b THEN a ELSE b
Max2(a, b) == IF a >= b THEN a ELSE b

\* ------------------------------------------------------- calendar (pandas)
NaT == -1

\* days since 1970-01-01 of the proleptic Gregorian date y-m-d
DaysFromCivil(y, m, d) ==
  LET y1  == IF m <= 2 THEN y - 1 ELSE y
      era == y1 \div 400
      yoe == y1 - era * 400
      mp  == (m + 9) % 12
      doy == (153 * mp + 2) \div 5 + d - 1
      doe == yoe * 365 + yoe \div 4 - yoe \div 100 + doy
  IN  era * 146097 + doe - 719468

\* <<year, month, day>> of a day count: Timestamp.strftime("%Y-%m-%d")
strftime(z0) ==
  LET z   == z0 + 719468
      era == z \div 146097
      doe == z - era * 146097
      yoe == (doe - doe \div 1460 + doe \div 36524 - doe \div 146096) \div 365
      doy == doe - (365 * yoe + yoe \div 4 - yoe \div 100)
      mp  == (5 * doy + 2) \div 153
      d   == doy - (153 * mp + 2) \div 5 + 1
      m   == IF mp < 10 THEN mp + 3 ELSE mp - 9
      y   == yoe + era * 400 + (IF m <= 2 THEN 1 ELSE 0)
  IN  <<y, m, d>>

IsLeap(y) == (y % 4 = 0 /\ y % 100 # 0) \/ y % 400 = 0

DaysInMonth(y, m) ==
  IF m = 2 THEN (IF IsLeap(y) THEN 29 ELSE 28)
  ELSE IF m \in {4, 6, 9, 11} THEN 30 ELSE 31

\* pd.to_datetime on a string: a Timestamp, NaT for "", or a raised error
pd_to_datetime(s) ==
  IF s = <<>> THEN [ok |-> TRUE, ts |-> NaT]
  ELSE IF /\ Len(s) = 3
          /\ s[2] \in 1..12
          /\ s[3] >= 1
          /\ s[3] <= DaysInMonth(s[1], s[2])
       THEN [ok |-> TRUE, ts |-> DaysFromCivil(s[1], s[2], s[3])]
       ELSE [ok |-> FALSE, ts |-> NaT]

\* datetime.strptime(text, "%Y-%m-%d") on a date the loop formatted
strptime(s) == DaysFromCivil(s[1], s[2], s[3])

MonthOf(ts) == strftime(ts)[2]

DayOfYear(ts) == ts - DaysFromCivil(strftime(ts)[1], 1, 1) + 1

\* ------------------------------------------------------ weather condition
Num(v) == [k |-> "num", v |-> v]
NaN    == [k |-> "nan", v |-> 0]
NegInf == [k |-> "-inf", v |-> 0]
PosInf == [k |-> "inf", v |-> 0]
\* a whole number of degrees as a float in half degrees
Deg(d) == Num(2 * d)

\* IEEE comparison a < b
FloatLt(a, b) ==
  IF a.k = "nan" \/ b.k = "nan" THEN FALSE
  ELSE IF a.k = "-inf" THEN b.k # "-inf"
  ELSE IF b.k = "inf" THEN a.k # "inf"
  ELSE IF a.k = "inf" \/ b.k = "-inf" THEN FALSE
  ELSE a.v < b.v

\* IEEE comparison a <= b
FloatLe(a, b) ==
  IF a.k = "nan" \/ b.k = "nan" THEN FALSE
  ELSE FloatLt(a, b) \/ a = b

\* the dictionary in insertion order: <<low, high, condition>>
WEATHER_CONDITIONS ==
  << <<NegInf,  Deg(32), "freezing">>,
     <<Deg(32), Deg(50), "cold">>,
     <<Deg(50), Deg(65), "cool">>,
     <<Deg(65), Deg(75), "mild">>,
     <<Deg(75), Deg(85), "warm">>,
     <<Deg(85), Deg(95), "hot">>,
     <<Deg(95), PosInf,  "very_hot">> >>

InRangeClosed(temp_range, temp) ==
  FloatLe(temp_range[1], temp) /\ FloatLe(temp, temp_range[2])

InRangeUpperExclusive(temp_range, temp) ==
  FloatLe(temp_range[1], temp) /\ FloatLt(temp, temp_range[2])

\* temp_range[0] < temp <= temp_range[1]
InRange(temp_range, temp) ==
  FloatLt(temp_range[1], temp) /\ FloatLe(temp, temp_range[2])

RECURSIVE ScanConditions(_, _)
ScanConditions(i, temp) ==
  IF i > Len(WEATHER_CONDITIONS) THEN "mild"
  ELSE IF InRange(WEATHER_CONDITIONS[i], temp) THEN WEATHER_CONDITIONS[i][3]
  ELSE ScanConditions(i + 1, temp)

get_weather_condition(temp) == ScanConditions(1, temp)

\* ------------------------------------------------------------- DataFrame
\* The columns a CSV of the service carries besides the date.
CsvColumns == {"tmax", "tmin", "prcp"}

\* index[i]: the date of row i (rows in g are followed by a missing day)
DateAt(frame, i) == frame.first + (i - 1) + Cardinality({g \in frame.gap : g < i})

\* DataFrame.isnull().sum() / len(frame) < 0.05, as exact arithmetic:
\* k / n < 1/20; 0 / 0 is NaN and compares False
NullPctAtMost(k, n) == n > 0 /\ 20 * k <= n

NullPctBelow(k, n) == n > 0 /\ 20 * k < n

valid_columns(csv) ==
  {c \in CsvColumns : NullPctBelow(Cardinality(csv.nulls[c]), csv.n)}

\* Series.ffill(): the row whose value row i holds afterwards, 0 when row i
\* stays null (no earlier value)
RECURSIVE ffill(_, _)
ffill(nulls, i) ==
  IF i = 0 THEN 0
  ELSE IF i \notin nulls THEN i
  ELSE ffill(nulls, i - 1)

\* the CSV row whose value cell (c, i) of the loaded frame holds
CellSrc(frame, c, i) == ffill(frame.nulls[c], i)

\* Series.shift(-1): target cell i holds what cell i + 1 holds, the last target
\* cell is null
ShiftSrc(frame, c, i) == IF i < frame.n THEN CellSrc(frame, c, i + 1) ELSE 0

RECURSIVE FillShifted(_, _, _)
\* the second ffill(), on a shifted column: the latest target cell up to i that
\* is not null
FillShifted(frame, c, i) ==
  IF i = 0 THEN 0
  ELSE IF ShiftSrc(frame, c, i) # 0 THEN ShiftSrc(frame, c, i)
  ELSE FillShifted(frame, c, i - 1)

TargetSrcUnshifted(frame, c, i) == CellSrc(frame, c, i)

\* Series.shift(-1) then ffill(): the CSV row whose value target cell i holds
TargetSrc(frame, c, i) == FillShifted(frame, c, i)

\* the values the CSV holds in its non-null cells: every row differs
RawValue(c, i) ==
  IF c = "tmax" THEN 70 + i
  ELSE IF c = "tmin" THEN 50 - i
  ELSE i

\* Python slice bound: a negative bound counts from the end, and -0 is 0
SliceIndex(n, i) == IF i < 0 THEN Max2(n + i, 0) ELSE Min2(i, n)

\* frame.iloc[:stop] as the rows <<first, last>> (1-based, inclusive)
IlocHead(n, stop) == <<1, SliceIndex(n, stop)>>

\* frame.iloc[start:]
IlocTail(n, start) == <<SliceIndex(n, start) + 1, n>>

PartLen(part) == IF part[2] >= part[1] THEN part[2] - part[1] + 1 ELSE 0

\* the cap on the test partition: one year of rows
TestCap == 365

TestSizeUncapped(n) == n \div 5

\* min(int(0.2 * len(weather)), 365): 0.2 * n truncates to n div 5
TestSize(n) == Min2(n \div 5, TestCap)

NoFrame == [n |-> 0, first |-> NaT, gap |-> {}, cols |-> {}, nulls |-> [c \in {} |-> {}]]
NoPart == <<0, 0>>

\* load_data: (weather, train_data, test_data, success, message)
load_data(csv) ==
  LET valid == valid_columns(csv)
      n     == csv.n
      failed == [weather |-> NoFrame, train_data |-> NoPart, test_data |-> NoPart,
                 success |-> FALSE, message |-> "Error loading data"]
  IN  IF ~csv.readable THEN failed
      ELSE IF "tmax" \notin valid \/ "tmin" \notin valid THEN failed
      ELSE [weather |-> [n |-> n, first |-> csv.first, gap |-> csv.gap,
                         cols |-> valid \cup {"temp_range", "target_tmax", "target_tmin"},
                         nulls |-> [c \in valid |-> csv.nulls[c]]],
            train_data |-> IlocHead(n, -TestSize(n)),
            test_data  |-> IlocTail(n, -TestSize(n)),
            success |-> TRUE,
            message |-> "Data loaded and processed successfully"]

\* ------------------------------------------------------ time-derived columns
\* Timestamp.isocalendar().week: the week of the year that holds the Thursday
\* of the date's week
IsoWeek(ts) ==
  LET weekday  == ((ts + 3) % 7) + 1
      thursday == ts - weekday + 4
  IN  ((thursday - DaysFromCivil(strftime(thursday)[1], 1, 1)) \div 7) + 1

\* load_data: weather.index.month.map({1: 'winter', ..., 12: 'winter'})
SeasonLabel(month) ==
  IF month \in {1, 2, 12} THEN "winter"
  ELSE IF month \in {3, 4, 5} THEN "spring"
  ELSE IF month \in {6, 7, 8} THEN "summer"
  ELSE "fall"

\* the forecast loop: predicted_date.month % 12 // 3 + 1
SeasonCode(month) == ((month % 12) \div 3) + 1

\* np.sin(2 * np.pi * dayofyear / 365.25) and np.cos of the same angle, kept
\* as the function applied and the day of the year it is applied to
SinDay(dayofyear) == <<"sin", dayofyear>>
CosDay(dayofyear) == <<"cos", dayofyear>>

TimeColumns == {"dayofyear", "month", "week", "season", "sin_day", "cos_day"}

\* ---------------------------------------------------------- python min / max
RECURSIVE ArgMinFrom(_, _, _)
\* the running minimum is replaced only by a smaller key
ArgMinFrom(keys, k, best) ==
  IF k > Len(keys) THEN best
  ELSE ArgMinFrom(keys, k + 1, IF keys[k] < keys[best] THEN k ELSE best)

RECURSIVE ArgMaxFrom(_, _, _)
ArgMaxFrom(keys, k, best) ==
  IF k > Len(keys) THEN best
  ELSE ArgMaxFrom(keys, k + 1, IF keys[k] > keys[best] THEN k ELSE best)

PyMinLast(keys) == CHOOSE i \in 1..Len(keys) :
  \A j \in 1..Len(keys) : keys[i] <= keys[j] /\ (keys[j] = keys[i] => j <= i)

PyMaxLast(keys) == CHOOSE i \in 1..Len(keys) :
  \A j \in 1..Len(keys) : keys[i] >= keys[j] /\ (keys[j] = keys[i] => j <= i)

\* min(items, key=...) and max(items, key=...) of a sequence that is not
\* empty: the position of the item returned, given the keys of the items
PyMin(keys) == ArgMinFrom(keys, 2, 1)
PyMax(keys) == ArgMaxFrom(keys, 2, 1)

\* ---------------------------------------------- calculate_r2_learning_curve
\* R2 values and training sizes are in thousandths
train_sizes == <<100, 200, 400, 600, 800, 1000>>

\* size ** curve_factor with curve_factor = 0.5
SizePower(size) ==
  CHOOSE r \in 0..1000 : r * r <= size * 1000 /\ size * 1000 < (r + 1) * (r + 1)

\* the body of "for size in train_sizes": the score appended for one size
CurveScore(final_r2, size) ==
  LET r2      == (final_r2 * SizePower(size)) \div 1000
      reduced == IF size <= 200 THEN (r2 * (500 + size * 2)) \div 1000 ELSE r2
  IN  Max2(100, Min2(reduced, final_r2))

\* called with final_r2 given and train_sizes left to its default
calculate_r2_learning_curve(final_r2) ==
  [train_sizes |-> train_sizes,
   r2_scores   |-> [k \in 1..Len(train_sizes) |->
                      IF k = Len(train_sizes) THEN final_r2
                      ELSE CurveScore(final_r2, train_sizes[k])]]

\* ------------------------------------------------------------------ training
Targets == {"max", "min"}

\* the estimators of train_models, in the order they are evaluated
Candidates == <<"Random Forest", "Gradient Boosting", "Linear Regression">>

\* evaluate_model: the fitted estimator, its name and the metrics it reached
evaluate_model(metrics, target, m) ==
  [model   |-> [target |-> target, estimator |-> m],
   name    |-> Candidates[m],
   metrics |-> metrics[target][m]]

\* weather_forecast.train_models
train_models(metrics) ==
  LET results(t) == [m \in 1..Len(Candidates) |-> evaluate_model(metrics, t, m)]
      best(t) == results(t)[PyMin([m \in 1..Len(Candidates) |->
                                     results(t)[m].metrics.test_rmse])]
      comparison(t) == [m \in 1..Len(Candidates) |->
                          [model     |-> results(t)[m].name,
                           test_rmse |-> results(t)[m].metrics.test_rmse,
                           r2_score  |-> results(t)[m].metrics.test_r2]]
  IN  [model_objects        |-> [t \in Targets |-> best(t).model],
       best_model_name_max  |-> best("max").name,
       best_model_name_min  |-> best("min").name,
       model_comparison_max |-> comparison("max"),
       model_comparison_min |-> comparison("min"),
       metrics_max          |-> best("max").metrics,
       metrics_min          |-> best("min").metrics]

\* weather_forecast_fixed.simple_train_models: one random forest per target
simple_train_models(metrics) ==
  [model_max    |-> [target |-> "max", estimator |-> 1],
   model_min    |-> [target |-> "min", estimator |-> 1],
   metrics_max  |-> metrics["max"][1],
   metrics_min  |-> metrics["min"][1],
   r2_curve_max |-> calculate_r2_learning_curve(metrics["max"][1].test_r2),
   r2_curve_min |-> calculate_r2_learning_curve(metrics["min"][1].test_r2)]

\* ----------------------------------------------------------------- summaries
\* a / b, kept exact as numerator and denominator
Div(a, b) == [num |-> a, den |-> b]

SummarySeasonByQuarter(month) ==
  IF month \in {1, 2, 3} THEN "winter"
  ELSE IF month \in {4, 5, 6} THEN "spring"
  ELSE IF month \in {7, 8, 9} THEN "summer"
  ELSE "fall"

\* the season a point of the forecast is counted in
SummarySeason(month) ==
  IF month \in {12, 1, 2} THEN "winter"
  ELSE IF month \in {3, 4, 5} THEN "spring"
  ELSE IF month \in {6, 7, 8} THEN "summer"
  ELSE "fall"

RECURSIVE Accumulate(_, _, _)
\* "for prediction in future_predictions": seasonal_data from point k on
Accumulate(points, k, seasonal_data) ==
  IF k > Len(points) THEN seasonal_data
  ELSE LET season == SummarySeason(MonthOf(strptime(points[k].date)))
           known  == IF season \in DOMAIN seasonal_data THEN seasonal_data
                     ELSE seasonal_data @@
                            (season :> [count |-> 0, avg_tmax |-> 0, avg_tmin |-> 0])
       IN  Accumulate(points, k + 1,
             [known EXCEPT ![season] =
                [count    |-> @.count + 1,
                 avg_tmax |-> @.avg_tmax + points[k].predicted_tmax,
                 avg_tmin |-> @.avg_tmin + points[k].predicted_tmin]])

\* "Calculate seasonal aggregates" and "Calculate averages"
seasonal_summary(points) ==
  LET seasonal_data == Accumulate(points, 1, <<>>)
  IN  [season \in DOMAIN seasonal_data |->
         [count    |-> seasonal_data[season].count,
          avg_tmax |-> Div(seasonal_data[season].avg_tmax, seasonal_data[season].count),
          avg_tmin |-> Div(seasonal_data[season].avg_tmin, seasonal_data[season].count)]]

\* "Find extreme days (hottest and coldest)", of a sequence that is not empty
extreme_days(points) ==
  [hottest |-> points[PyMax([k \in 1..Len(points) |-> points[k].predicted_tmax])],
   coldest |-> points[PyMin([k \in 1..Len(points) |-> points[k].predicted_tmin])]]

\* "Count occurrences of each weather condition"
condition_counts(points) ==
  [c \in {points[k].weather_condition : k \in 1..Len(points)} |->
     Cardinality({k \in 1..Len(points) : points[k].weather_condition = c})]

\* ------------------------------------------------------------------ state
VARIABLES
  pc,                     \* the position of the request being served
  req,                    \* the request: [days, start_date] as app.py read them
  csv,                    \* the table in data.csv
  loaded,                 \* what load_data returned
  trained,                \* simple_train_models: "no", "ok" or "failed"
  start_date,             \* simple_generate_forecast's start_date variable
  last_known,             \* the working row
  historical_data,        \* the context window
  prediction_start_date,
  day,                    \* the loop counter
  future_predictions,     \* the points emitted so far
  result,                 \* what run_forecast returned
  response,               \* the HTTP status get_forecast answered with
  temp,                   \* an argument of get_weather_condition
  condition,              \* the label it returned
  fit,                    \* the test metrics the fits of the candidates reach
  model_results,          \* what simple_train_models / train_models returned
  log                     \* the lines printed by simple_generate_forecast

vars == <<pc, req, csv, loaded, trained, start_date, last_known, historical_data,
          prediction_start_date, day, future_predictions, result, response,
          temp, condition, fit, model_results, log>>

\* ----------------------------------------------------------------- inputs
\* the first date of the series of a forecasting run
FirstDate == DaysFromCivil(2023, 12, 29)

None == [kind |-> "none", s |-> <<>>, ts |-> NaT]
Str(s) == [kind |-> "str", s |-> s, ts |-> NaT]
Timestamp(ts) == [kind |-> "ts", s |-> <<>>, ts |-> ts]

\* strings that are no date
BadDateStrings == {<<2024, 2, 30>>, <<2023, 13, 1>>}

\* a day after the series at which the season of the calendar changes
SeasonTurns == {DaysFromCivil(2024, 2, 28)}

\* dates from the day before the series to days after its end, and a day far
\* from the series
StartDates == ((FirstDate - 1)..(FirstDate + 2 * MaxSeries)) \cup SeasonTurns

StartDateArgs ==
  {None, Str(<<>>)} \cup {Str(s) : s \in BadDateStrings}
    \cup {Str(strftime(d)) : d \in StartDates}

\* the predictors are opaque: any of these values may come back
PredictedTmax == {30, 66}
PredictedTmin == {-2, 64}

\* the pairs a step may predict: a minimum below the maximum
Predicted == {p \in [tmax : PredictedTmax, tmin : PredictedTmin] : p.tmin < p.tmax}

\* np.random.normal(0, 2), drawn for the maximum and for the minimum
NoiseDraws == {<<-1, 2>>, <<2, -1>>}

\* the test metrics of a fitted estimator; R2 in thousandths
Metrics(rmse, r2) == [test_rmse |-> rmse, test_r2 |-> r2]

\* the metrics the fits of a forecasting run reach: one estimator per target
ForecastFits == {[t \in Targets |-> <<Metrics(2, 850)>>]}

NullPatterns ==
  {[c \in CsvColumns |-> {}],
   [c \in CsvColumns |-> IF c = "tmax" THEN {1} ELSE {}],
   [c \in CsvColumns |-> IF c = "prcp" THEN {1} ELSE {}]}

SeriesInputs ==
  {[readable |-> r, n |-> n, first |-> FirstDate, gap |-> g, nulls |-> u] :
     r \in BOOLEAN, n \in 1..MaxSeries,
     g \in SUBSET (1..(MaxSeries - 1)), u \in NullPatterns}

NoRow == [index |-> NaT, row |-> [c \in {} |-> 0]]
NoHistory == [dates |-> <<>>, tmax |-> <<>>, tmin |-> <<>>]
NoneResults ==
  [none |-> TRUE, daily_forecast |-> <<>>, historical_data |-> NoHistory,
   seasonal_summary |-> <<>>, extreme_days |-> <<>>, condition_counts |-> <<>>]
NoModels == [predictors |-> {}]
NoResult == [results |-> NoneResults, success |-> FALSE, message |-> <<"pending", "">>]
NotLoaded == [weather |-> NoFrame, train_data |-> NoPart, test_data |-> NoPart,
              success |-> FALSE, message |-> "pending"]

Init ==
  /\ pc = "load"
  /\ csv \in {t \in SeriesInputs : \A g \in t.gap : g < t.n}
  /\ req \in [days : (-1)..MaxDays, start_date : StartDateArgs]
  /\ loaded = NotLoaded
  /\ trained = "no"
  /\ start_date = req.start_date
  /\ last_known = NoRow
  /\ historical_data = NoHistory
  /\ prediction_start_date = NaT
  /\ day = 0
  /\ future_predictions = <<>>
  /\ result = NoResult
  /\ response = 0
  /\ temp = NaN
  /\ condition = "none"
  /\ fit \in ForecastFits
  /\ model_results = NoModels
  /\ log = <<>>

\* ------------------------------------------------------------- run_forecast
\* the value of column c in row i of the loaded frame
CellValue(frame, c, i) ==
  LET val(col, src) == IF src = 0 THEN "NaN" ELSE RawValue(col, src)
  IN  IF c \in CsvColumns THEN val(c, CellSrc(frame, c, i))
      ELSE IF c = "temp_range"
        THEN val("tmax", CellSrc(frame, "tmax", i)) - val("tmin", CellSrc(frame, "tmin", i))
      ELSE IF c = "target_tmax" THEN val("tmax", TargetSrc(frame, "tmax", i))
      ELSE IF c = "target_tmin" THEN val("tmin", TargetSrc(frame, "tmin", i))
      ELSE IF c = "dayofyear" THEN DayOfYear(DateAt(frame, i))
      ELSE IF c = "month" THEN MonthOf(DateAt(frame, i))
      ELSE IF c = "week" THEN IsoWeek(DateAt(frame, i))
      ELSE IF c = "season" THEN SeasonLabel(MonthOf(DateAt(frame, i)))
      ELSE IF c = "sin_day" THEN SinDay(DayOfYear(DateAt(frame, i)))
      ELSE CosDay(DayOfYear(DateAt(frame, i)))

\* weather_data.loc[[date]].copy() / weather_data.iloc[-1:].copy(): one row
RowAt(frame, i) ==
  [index |-> DateAt(frame, i),
   row   |-> [c \in frame.cols \cup TimeColumns |-> CellValue(frame, c, i)]]

RaisedPartial(e) ==
  [results |-> [NoneResults EXCEPT !.none = FALSE, !.historical_data = historical_data],
   success |-> FALSE,
   message |-> <<"Error generating forecast", e>>]

\* run_forecast's except clause: (None, False, "Error generating forecast: ...")
Raised(e) ==
  [results |-> NoneResults, success |-> FALSE,
   message |-> <<"Error generating forecast", e>>]

\* weather_forecast_fixed.run_forecast, first lines: load the table
LoadData ==
  /\ pc = "load"
  /\ loaded' = load_data(csv)
  /\ IF loaded'.success
       THEN pc' = "train" /\ UNCHANGED result
       ELSE /\ pc' = "respond"
            /\ result' = [results |-> NoneResults, success |-> FALSE,
                          message |-> <<loaded'.message, "">>]
  /\ UNCHANGED <<req, csv, trained, start_date, last_known, historical_data,
                 prediction_start_date, day, future_predictions, response,
                 temp, condition, fit, model_results, log>>

\* simple_train_models: train_test_split needs two rows; the fit is opaque
\* and may raise
TrainModels ==
  /\ pc = "train"
  /\ \E fit_ok \in BOOLEAN :
       IF fit_ok /\ loaded.weather.n >= 2
         THEN /\ trained' = "ok"
              /\ model_results' = simple_train_models(fit)
              /\ pc' = "seed"
              /\ UNCHANGED result
         ELSE /\ trained' = "failed"
              /\ pc' = "respond"
              /\ result' = Raised("train")
              /\ UNCHANGED model_results
  /\ UNCHANGED <<req, csv, loaded, start_date, last_known, historical_data,
                 prediction_start_date, day, future_predictions, response,
                 temp, condition, fit, log>>

\* available_dates[available_dates <= start_date], as row positions
ClosestDates(frame, ts) == {i \in 1..frame.n : DateAt(frame, i) <= ts}

EarliestOf(rows) == CHOOSE i \in rows : \A j \in rows : i <= j

\* closest_dates[-1]
LastOf(rows) == CHOOSE i \in rows : \A j \in rows : j <= i

\* simple_generate_forecast, "Get the data point for starting predictions"
SeedRow ==
  /\ pc = "seed"
  /\ LET wd == loaded.weather
         parsed == pd_to_datetime(start_date.s)
     IN  IF start_date.kind = "none" \/ start_date = Str(<<>>)
           THEN \* falsy start_date: the most recent data point
                /\ last_known' = RowAt(wd, wd.n)
                /\ UNCHANGED <<start_date, log>>
           ELSE IF ~parsed.ok
             THEN \* the except clause: most recent data, start_date unchanged
                  /\ last_known' = RowAt(wd, wd.n)
                  /\ log' = Append(log, "Error using custom start date")
                  /\ UNCHANGED start_date
             ELSE /\ start_date' = Timestamp(parsed.ts)
                  /\ IF ClosestDates(wd, parsed.ts) # {}
                       THEN /\ last_known' = RowAt(wd, LastOf(ClosestDates(wd, parsed.ts)))
                            /\ log' = Append(log, "Using data from closest date")
                       ELSE /\ last_known' = RowAt(wd, 1)
                            /\ log' = Append(log, "Requested date is before available data")
  /\ pc' = "hist"
  /\ UNCHANGED <<req, csv, loaded, trained, historical_data, prediction_start_date,
                 day, future_predictions, result, response, temp, condition,
                 fit, model_results>>

\* the row of weather_data.index[-days_to_include]
HistoricalStartRow(frame) == frame.n - Min2(365, frame.n) + 1

\* the rows the historical loop finds: calendar days counted from
\* index[-days_to_include] that are dates of the index
HistoricalRows(frame) ==
  LET days_to_include == Min2(365, frame.n)
      start_row == HistoricalStartRow(frame)
      historical_start == DateAt(frame, start_row)
  IN  {j \in start_row..frame.n : DateAt(frame, j) <= historical_start + days_to_include - 1}

\* simple_generate_forecast, "Get last 365 days for historical comparison"
HistoricalWindow ==
  /\ pc = "hist"
  /\ LET wd == loaded.weather
         rows == HistoricalRows(wd)
         at(k) == HistoricalStartRow(wd) + k - 1
     IN  historical_data' =
           [dates |-> [k \in 1..Cardinality(rows) |-> strftime(DateAt(wd, at(k)))],
            tmax  |-> [k \in 1..Cardinality(rows) |-> CellValue(wd, "tmax", at(k))],
            tmin  |-> [k \in 1..Cardinality(rows) |-> CellValue(wd, "tmin", at(k))]]
  /\ pc' = "pstart"
  /\ UNCHANGED <<req, csv, loaded, trained, start_date, last_known,
                 prediction_start_date, day, future_predictions, result, response,
                 temp, condition, fit, model_results, log>>

\* "If start_date was provided, explicitly use that as the starting point for
\* prediction dates": the start, or the error pd.to_datetime raises
PredictionStartAfterSeed(sd, seed) == [ok |-> TRUE, ts |-> seed.index + 1]

PredictionStart(sd, seed) ==
  IF sd.kind = "str" THEN pd_to_datetime(sd.s)
  ELSE IF sd.kind = "ts" THEN [ok |-> TRUE, ts |-> sd.ts]
  ELSE [ok |-> TRUE, ts |-> seed.index]

SetPredictionStart ==
  /\ pc = "pstart"
  /\ LET start == PredictionStart(start_date, last_known)
     IN  IF start.ok
           THEN /\ prediction_start_date' = start.ts
                /\ pc' = "loop"
                /\ UNCHANGED result
           ELSE /\ pc' = "respond"
                /\ result' = Raised("to_datetime")
                /\ UNCHANGED prediction_start_date
  /\ UNCHANGED <<req, csv, loaded, trained, start_date, last_known, historical_data,
                 day, future_predictions, response, temp, condition, fit, model_results, log>>

PredictedDateStuck(start, d) == start

\* prediction_start_date + pd.Timedelta(days=day); NaT stays NaT
PredictedDate(start, d) == IF start = NaT THEN NaT ELSE start + d

IntervalUnclamped(pred) == [lower |-> pred * 9, upper |-> pred * 11]

\* "Calculate simple confidence intervals (10% of the prediction value)":
\* max(0, pred * 0.9) and pred * 1.1, in tenths of a degree
ConfidenceInterval(pred) == [lower |-> Max2(0, pred * 9), upper |-> pred * 11]

\* weather_forecast.generate_forecast: pred * (1 - 0.1) and pred * (1 + 0.1),
\* widened by the draws of np.random.uniform(0, 1), in tenths of a degree
LegacyInterval(pred, below, above) ==
  [lower |-> pred * 9 - below, upper |-> pred * 11 + above]

\* the prediction object of one day; avg_temp in half degrees
Prediction(predicted_date, pred_tmax, pred_tmin, tmax_interval, tmin_interval) ==
  [date              |-> strftime(predicted_date),
   predicted_tmax    |-> pred_tmax,
   predicted_tmin    |-> pred_tmin,
   temp_range        |-> pred_tmax - pred_tmin,
   avg_temp          |-> pred_tmax + pred_tmin,
   weather_condition |-> get_weather_condition(Num(pred_tmax + pred_tmin)),
   tmax_confidence_interval |-> tmax_interval,
   tmin_confidence_interval |-> tmin_interval]

\* "Update seasonal features" and "Update cyclical features": the working
\* row with the time-derived columns of predicted_date
TimeFeatures(seed, predicted_date) ==
  [index |-> seed.index,
   row   |-> [c \in DOMAIN seed.row \cup TimeColumns |->
                IF c = "dayofyear" THEN DayOfYear(predicted_date)
                ELSE IF c = "month" THEN MonthOf(predicted_date)
                ELSE IF c = "week" THEN IsoWeek(predicted_date)
                ELSE IF c = "season" THEN SeasonCode(MonthOf(predicted_date))
                ELSE IF c = "sin_day" THEN SinDay(DayOfYear(predicted_date))
                ELSE IF c = "cos_day" THEN CosDay(DayOfYear(predicted_date))
                ELSE seed.row[c]]]

NextRowNoCarry(seed, predicted_date, pred_tmax, pred_tmin) ==
  [index |-> predicted_date, row |-> TimeFeatures(seed, predicted_date).row]

NextRowStaleAux(seed, predicted_date, pred_tmax, pred_tmin) ==
  [index |-> predicted_date,
   row   |-> [c \in DOMAIN seed.row |->
                IF c \in {"tmax", "target_tmax"} THEN pred_tmax
                ELSE IF c \in {"tmin", "target_tmin"} THEN pred_tmin
                ELSE IF c = "temp_range" THEN pred_tmax - pred_tmin
                ELSE IF c = "prcp" THEN 0
                ELSE IF c = "week" THEN seed.row[c]
                ELSE TimeFeatures(seed, predicted_date).row[c]]]

\* "Update last_known for next iteration": the copy of the working row that
\* carries the predictions
NextRow(seed, predicted_date, pred_tmax, pred_tmin) ==
  [index |-> predicted_date,
   row   |-> [c \in DOMAIN seed.row |->
                IF c \in {"tmax", "target_tmax"} THEN pred_tmax
                ELSE IF c \in {"tmin", "target_tmin"} THEN pred_tmin
                ELSE IF c = "temp_range" THEN pred_tmax - pred_tmin
                ELSE TimeFeatures(seed, predicted_date).row[c]]]

FallbackSwapped(row, noise) ==
  [tmax |-> row.row["tmin"] + noise[1], tmin |-> row.row["tmax"] + noise[2]]

\* the except clause of "Make predictions": the last known values plus noise
Fallback(row, noise) ==
  [tmax |-> row.row["tmax"] + noise[1], tmin |-> row.row["tmin"] + noise[2]]

\* one iteration of "for day in range(days)"
ForecastStep ==
  /\ pc = "loop"
  /\ day < req.days
  /\ LET predicted_date == PredictedDate(prediction_start_date, day)
         emit(pred) ==
           /\ future_predictions' =
                Append(future_predictions,
                       Prediction(predicted_date, pred.tmax, pred.tmin,
                                  ConfidenceInterval(pred.tmax),
                                  ConfidenceInterval(pred.tmin)))
           /\ last_known' = NextRow(last_known, predicted_date, pred.tmax, pred.tmin)
           /\ day' = day + 1
           /\ UNCHANGED <<pc, result>>
     IN  IF predicted_date = NaT
           THEN \* NaT.isocalendar() raises
                /\ pc' = "respond"
                /\ result' = Raised("isocalendar")
                /\ UNCHANGED <<last_known, day, future_predictions, log>>
           ELSE \/ \E pred \in Predicted :
                     emit(pred) /\ UNCHANGED log
                \/ \* a predictor raises
                   \E noise \in NoiseDraws :
                     /\ emit(Fallback(TimeFeatures(last_known, predicted_date), noise))
                     /\ log' = Append(log, "Prediction error")
  /\ UNCHANGED <<req, csv, loaded, trained, start_date, historical_data,
                 prediction_start_date, response, temp, condition, fit, model_results>>

\* what the forecast function returns, for a sequence that is not empty
ForecastResults(points, history) ==
  [none |-> FALSE, daily_forecast |-> points, historical_data |-> history,
   seasonal_summary |-> seasonal_summary(points),
   extreme_days     |-> extreme_days(points),
   condition_counts |-> condition_counts(points)]

\* after the loop: the summaries, and run_forecast's return
Summarise ==
  /\ pc = "loop"
  /\ ~(day < req.days)
  /\ IF future_predictions = <<>>
       THEN \* max() of an empty sequence raises
            result' = Raised("max_empty")
       ELSE result' = [results |-> ForecastResults(future_predictions, historical_data),
                       success |-> TRUE,
                       message |-> <<"Enhanced forecast generated successfully", "">>]
  /\ pc' = "respond"
  /\ UNCHANGED <<req, csv, loaded, trained, start_date, last_known, historical_data,
                 prediction_start_date, day, future_predictions, response,
                 temp, condition, fit, model_results, log>>

\* app.get_forecast: 200 with the data, or 500 with the message
Respond ==
  /\ pc = "respond"
  /\ response' = IF result.success /\ ~result.results.none THEN 200 ELSE 500
  /\ pc' = "done"
  /\ UNCHANGED <<req, csv, loaded, trained, start_date, last_known, historical_data,
                 prediction_start_date, day, future_predictions, result,
                 temp, condition, fit, model_results, log>>

Next ==
  \/ LoadData
  \/ TrainModels
  \/ SeedRow
  \/ HistoricalWindow
  \/ SetPredictionStart
  \/ ForecastStep
  \/ Summarise
  \/ Respond

Spec == Init /\ [][Next]_vars

\* ------------------------------------------------ get_weather_condition alone
\* largest temperature tried, in half degrees (and smallest, negated)
MaxHalfDegrees == 240

TempInputs == {NaN, NegInf, PosInf} \cup {Num(v) : v \in (-MaxHalfDegrees)..MaxHalfDegrees}

InitCond ==
  /\ pc = "condition"
  /\ temp \in TempInputs
  /\ condition = "none"
  /\ csv = [readable |-> FALSE, n |-> 0, first |-> FirstDate, gap |-> {},
            nulls |-> [c \in CsvColumns |-> {}]]
  /\ req = [days |-> 0, start_date |-> None]
  /\ loaded = NotLoaded
  /\ trained = "no"
  /\ start_date = None
  /\ last_known = NoRow
  /\ historical_data = NoHistory
  /\ prediction_start_date = NaT
  /\ day = 0
  /\ future_predictions = <<>>
  /\ result = NoResult
  /\ response = 0
  /\ fit = [t \in Targets |-> <<>>]
  /\ model_results = NoModels
  /\ log = <<>>

ApplyCondition ==
  /\ pc = "condition"
  /\ condition' = get_weather_condition(temp)
  /\ pc' = "labelled"
  /\ UNCHANGED <<req, csv, loaded, trained, start_date, last_known, historical_data,
                 prediction_start_date, day, future_predictions, result, response, temp,
                 fit, model_results, log>>

SpecCond == InitCond /\ [][ApplyCondition]_vars

\* ------------------------------------------------------------ load_data alone
\* tables of up to MaxRows rows, and tables around the length at which a fifth
\* of the rows reaches the cap of the test partition
TableLengths == (0..MaxRows) \cup ((5 * TestCap - 1)..(5 * TestCap + MaxOver))

TableInputs ==
  {[readable |-> TRUE, n |-> n, first |-> FirstDate, gap |-> {}, nulls |-> u] :
     n \in TableLengths, u \in [CsvColumns -> SUBSET (1..MaxNullPos)]}

InitLoad ==
  /\ pc = "load"
  /\ csv \in {t \in TableInputs : \A c \in CsvColumns : \A i \in t.nulls[c] : i <= t.n}
  /\ req = [days |-> 1, start_date |-> None]
  /\ loaded = NotLoaded
  /\ trained = "no"
  /\ start_date = None
  /\ last_known = NoRow
  /\ historical_data = NoHistory
  /\ prediction_start_date = NaT
  /\ day = 0
  /\ future_predictions = <<>>
  /\ result = NoResult
  /\ response = 0
  /\ temp = NaN
  /\ condition = "none"
  /\ fit = [t \in Targets |-> <<>>]
  /\ model_results = NoModels
  /\ log = <<>>

SpecLoad == InitLoad /\ [][LoadData]_vars

\* ------------------------------------- weather_forecast.py (no start date)
\* longest series of the runs of the first version of the module
MaxLegacyRows == 6

\* the draws of np.random.uniform(0, 1) of one point, in tenths
UniformDraws == {<<0, 0, 0, 0>>, <<3, 9, 5, 1>>}

\* largest test RMSE of a candidate
MaxRmse == 2

\* the metrics the fit of a candidate may reach
MetricsInputs == {Metrics(r, q) : r \in 1..MaxRmse, q \in {700, 900}}

\* the metrics of the runs of the first version: a tie of all candidates, and
\* the last candidate the best
LegacyFits ==
  {[t \in Targets |-> [m \in 1..Len(Candidates) |-> Metrics(1, 700)]],
   [t \in Targets |-> [m \in 1..Len(Candidates) |->
                         IF m = Len(Candidates) THEN Metrics(1, 900) ELSE Metrics(2, 700)]]}

LegacyInputs ==
  {[readable |-> TRUE, n |-> n, first |-> FirstDate, gap |-> g,
    nulls |-> [c \in CsvColumns |-> {}]] :
     n \in 4..MaxLegacyRows, g \in SUBSET {1, 2}}

InitLegacy ==
  /\ pc = "legacy_load"
  /\ csv \in LegacyInputs
  /\ req \in [days : (-1)..MaxDays, start_date : {None}]
  /\ loaded = NotLoaded
  /\ trained = "no"
  /\ start_date = None
  /\ last_known = NoRow
  /\ historical_data = NoHistory
  /\ prediction_start_date = NaT
  /\ day = 0
  /\ future_predictions = <<>>
  /\ result = NoResult
  /\ response = 0
  /\ temp = NaN
  /\ condition = "none"
  /\ fit \in LegacyFits
  /\ model_results = NoModels
  /\ log = <<>>

\* weather_forecast.run_forecast, first lines
LegacyLoad ==
  /\ pc = "legacy_load"
  /\ loaded' = load_data(csv)
  /\ IF loaded'.success
       THEN pc' = "legacy_train" /\ UNCHANGED result
       ELSE /\ pc' = "done"
            /\ result' = [results |-> NoneResults, success |-> FALSE,
                          message |-> <<loaded'.message, "">>]
  /\ UNCHANGED <<req, csv, trained, start_date, last_known, historical_data,
                 prediction_start_date, day, future_predictions, response,
                 temp, condition, fit, model_results, log>>

\* train_models(train_data, test_data): a fit on an empty train partition
\* raises; the fit is opaque and may raise otherwise too
LegacyTrain ==
  /\ pc = "legacy_train"
  /\ \E fit_ok \in BOOLEAN :
       IF fit_ok /\ PartLen(loaded.train_data) >= 1
         THEN /\ trained' = "ok"
              /\ model_results' = train_models(fit)
              /\ pc' = "legacy_seed"
              /\ UNCHANGED result
         ELSE /\ trained' = "failed"
              /\ pc' = "done"
              /\ result' = Raised("train")
              /\ UNCHANGED model_results
  /\ UNCHANGED <<req, csv, loaded, start_date, last_known, historical_data,
                 prediction_start_date, day, future_predictions, response,
                 temp, condition, fit, log>>

\* generate_forecast up to its loop: the last row, the historical window
LegacySeed ==
  /\ pc = "legacy_seed"
  /\ LET wd == loaded.weather
         rows == HistoricalRows(wd)
         at(k) == HistoricalStartRow(wd) + k - 1
     IN  /\ last_known' = RowAt(wd, wd.n)
         /\ historical_data' =
              [dates |-> [k \in 1..Cardinality(rows) |-> strftime(DateAt(wd, at(k)))],
               tmax  |-> [k \in 1..Cardinality(rows) |-> CellValue(wd, "tmax", at(k))],
               tmin  |-> [k \in 1..Cardinality(rows) |-> CellValue(wd, "tmin", at(k))]]
  /\ pc' = "legacy_loop"
  /\ UNCHANGED <<req, csv, loaded, trained, start_date, prediction_start_date, day,
                 future_predictions, result, response, temp, condition, fit, model_results, log>>

\* one iteration of generate_forecast's loop:
\* predicted_date = last_known.index[-1] + pd.Timedelta(days=1)
LegacyStep ==
  /\ pc = "legacy_loop"
  /\ day < req.days
  /\ \E pred \in Predicted, u \in UniformDraws :
       /\ future_predictions' =
            Append(future_predictions,
                   Prediction(last_known.index + 1, pred.tmax, pred.tmin,
                              LegacyInterval(pred.tmax, u[1], u[2]),
                              LegacyInterval(pred.tmin, u[3], u[4])))
       /\ last_known' = NextRow(last_known, last_known.index + 1, pred.tmax, pred.tmin)
  /\ day' = day + 1
  /\ UNCHANGED <<pc, req, csv, loaded, trained, start_date, historical_data,
                 prediction_start_date, result, response, temp, condition, fit, model_results, log>>

\* generate_forecast's summaries and run_forecast's return
LegacySummarise ==
  /\ pc = "legacy_loop"
  /\ ~(day < req.days)
  /\ IF future_predictions = <<>>
       THEN result' = Raised("max_empty")
       ELSE result' = [results |-> ForecastResults(future_predictions, historical_data),
                       success |-> TRUE,
                       message |-> <<"Enhanced forecast generated successfully", "">>]
  /\ pc' = "done"
  /\ UNCHANGED <<req, csv, loaded, trained, start_date, last_known, historical_data,
                 prediction_start_date, day, future_predictions, response,
                 temp, condition, fit, model_results, log>>

NextLegacy ==
  \/ LegacyLoad
  \/ LegacyTrain
  \/ LegacySeed
  \/ LegacyStep
  \/ LegacySummarise

SpecLegacy == InitLegacy /\ [][NextLegacy]_vars

\* both versions of the module
SpecBoth == (Init \/ InitLegacy) /\ [][Next \/ NextLegacy]_vars

\* ------------------------------------------------------- train_models alone
\* a table train_models can be fitted on
TrainingTable ==
  [readable |-> TRUE, n |-> MaxLegacyRows, first |-> FirstDate, gap |-> {},
   nulls |-> [c \in CsvColumns |-> {}]]

InitTrain ==
  /\ pc = "legacy_train"
  /\ csv = TrainingTable
  /\ req = [days |-> 1, start_date |-> None]
  /\ loaded = load_data(csv)
  /\ trained = "no"
  /\ start_date = None
  /\ last_known = NoRow
  /\ historical_data = NoHistory
  /\ prediction_start_date = NaT
  /\ day = 0
  /\ future_predictions = <<>>
  /\ result = NoResult
  /\ response = 0
  /\ temp = NaN
  /\ condition = "none"
  /\ fit \in [Targets -> [1..Len(Candidates) -> MetricsInputs]]
  /\ model_results = NoModels
  /\ log = <<>>

SpecTrain == InitTrain /\ [][LegacyTrain]_vars

\* ------------------------------------------- the learning curves of training
\* largest negative R2 tried, in thousandths
MaxNegR2 == 200

R2Inputs == (-MaxNegR2)..1000

\* the final R2 of the maximum over the whole range, that of the minimum below
\* and above the floor of the curve
CurveFits ==
  {[t \in Targets |-> <<Metrics(1, IF t = "max" THEN a ELSE b)>>] :
     a \in R2Inputs, b \in {50, 900}}

InitCurve ==
  /\ pc = "train"
  /\ csv = TrainingTable
  /\ req = [days |-> 1, start_date |-> None]
  /\ loaded = load_data(csv)
  /\ trained = "no"
  /\ start_date = None
  /\ last_known = NoRow
  /\ historical_data = NoHistory
  /\ prediction_start_date = NaT
  /\ day = 0
  /\ future_predictions = <<>>
  /\ result = NoResult
  /\ response = 0
  /\ temp = NaN
  /\ condition = "none"
  /\ fit \in CurveFits
  /\ model_results = NoModels
  /\ log = <<>>

SpecCurve == InitCurve /\ [][TrainModels]_vars

\* ================================================================== claims
\* the request's start date, parsed
ReqStart == pd_to_datetime(req.start_date.s)

\* the request's start date is absent / a calendar date / a string that is none
ReqNoStart == req.start_date.kind = "none"
ReqValidStart == req.start_date.kind = "str" /\ req.start_date.s # <<>> /\ ReqStart.ok
ReqInvalidStart == req.start_date.kind = "str" /\ (req.start_date.s = <<>> \/ ~ReqStart.ok)

\* run_forecast has returned, having loaded the table and trained the models
Generated == pc \in {"respond", "done"} /\ trained = "ok"

DailyForecast == result.results.daily_forecast

\* the dates of a sequence of points are consecutive calendar days
OneDayApart(points) ==
  \A k \in 1..(Len(points) - 1) :
    strptime(points[k + 1].date) = strptime(points[k].date) + 1

LastSeriesDate == DateAt(loaded.weather, loaded.weather.n)

\* C1: for every horizon h >= 1 and a start date that is absent or valid,
\* simple_generate_forecast (and generate_forecast) returns exactly h points whose
\* dates are consecutive calendar days (strictly increasing, no gap, no
\* duplicate); the loop emits one point per iteration and never leaves early.
C1_HorizonDates ==
  /\ pc \in {"loop", "legacy_loop"} =>
       Len(future_predictions) = day /\ OneDayApart(future_predictions)
  /\ (Generated /\ req.days >= 1 /\ (ReqNoStart \/ ReqValidStart)) =>
       /\ result.success
       /\ Len(DailyForecast) = req.days
       /\ OneDayApart(DailyForecast)

C1_Witness ==
  /\ Generated /\ result.success /\ ReqValidStart
  /\ req.days >= 2 /\ Len(DailyForecast) = req.days

\* C2: with no start date the first point is dated the day after the series'
\* last row.
C2_StartsDayAfterLast ==
  (ReqNoStart /\ Len(future_predictions) >= 1) =>
     future_predictions[1].date = strftime(LastSeriesDate + 1)

\* generate_forecast of weather_forecast.py, for comparison: h >= 1 gives h points
\* on consecutive days, the first one the day after the series' last row
LegacyDatesFromDayAfterLast ==
  /\ \A k \in 1..Len(future_predictions) :
       future_predictions[k].date = strftime(LastSeriesDate + k)
  /\ (pc = "done" /\ trained = "ok" /\ req.days >= 1) =>
       result.success /\ Len(DailyForecast) = req.days /\ OneDayApart(DailyForecast)

\* C3: with a valid start date S the k-th point (k = 0..h-1) is dated S + k days,
\* whichever row seeded the working row, S before the first or after the last
\* series date included.
C3_DatesFromStart ==
  ReqValidStart =>
    \A k \in 1..Len(future_predictions) :
      future_predictions[k].date = strftime(ReqStart.ts + (k - 1))

C3_Witness ==
  /\ ReqValidStart /\ ReqStart.ts < FirstDate
  /\ pc = "done" /\ Len(future_predictions) >= 2

\* the row a valid start date S selects: the latest date <= S, else the earliest
SeedOf(frame, S) ==
  IF \E i \in 1..frame.n : DateAt(frame, i) <= S
    THEN CHOOSE i \in 1..frame.n :
           /\ DateAt(frame, i) <= S
           /\ \A j \in 1..frame.n : DateAt(frame, j) <= S => DateAt(frame, j) <= DateAt(frame, i)
    ELSE CHOOSE i \in 1..frame.n : \A j \in 1..frame.n : DateAt(frame, i) <= DateAt(frame, j)

\* C4: with a valid start date S the seed working row is the row of the latest
\* series date <= S, or the earliest row when S precedes every series date, and
\* that case is no error: the run succeeds.
C4_SeedRow ==
  /\ (pc = "hist" /\ ReqValidStart) =>
       /\ last_known.index = DateAt(loaded.weather, SeedOf(loaded.weather, ReqStart.ts))
       /\ last_known.row["tmax"] = RawValue("tmax", SeedOf(loaded.weather, ReqStart.ts))
       /\ last_known.row["tmin"] = RawValue("tmin", SeedOf(loaded.weather, ReqStart.ts))
  /\ (Generated /\ ReqValidStart /\ ReqStart.ts < FirstDate /\ req.days >= 1) =>
       result.success

C4_Witness ==
  /\ pc = "done" /\ ReqValidStart /\ ReqStart.ts < FirstDate
  /\ result.success /\ response = 200

\* C5: an invalid or unparsable start_date string does not fail the run: the run
\* succeeds with a forecast of `days` points.
C5_InvalidStartSucceeds ==
  (Generated /\ ReqInvalidStart /\ req.days >= 1) =>
     result.success /\ Len(DailyForecast) = req.days

\* C6: a non-positive horizon is no error: run_forecast succeeds with an empty
\* daily sequence.
C6_EmptyHorizonSucceeds ==
  (Generated /\ req.days <= 0 /\ (ReqNoStart \/ ReqValidStart)) =>
     result.success /\ ~result.results.none /\ DailyForecast = <<>>

\* the interval boundaries, in degrees, with the condition below and above each
Boundaries ==
  << <<32, "freezing", "cold">>, <<50, "cold", "cool">>, <<65, "cool", "mild">>,
     <<75, "mild", "warm">>, <<85, "warm", "hot">>, <<95, "hot", "very_hot">> >>

\* C7 as stated: a temperature exactly at a boundary maps to the higher of the
\* two adjacent conditions (32 -> cold, 95 -> very_hot).
C7_BoundaryHigher ==
  pc = "labelled" =>
    \A i \in 1..Len(Boundaries) :
      temp = Deg(Boundaries[i][1]) => condition = Boundaries[i][3]

\* C7 amended: a temperature exactly at a boundary maps to the lower of the two
\* adjacent conditions (32 -> freezing, 95 -> hot).
C7_BoundaryLower ==
  pc = "labelled" =>
    \A i \in 1..Len(Boundaries) :
      temp = Deg(Boundaries[i][1]) => condition = Boundaries[i][2]

C7_Witness == pc = "labelled" /\ temp = Deg(95) /\ condition = "hot"

\* the condition of a finite temperature t (half degrees), interval by interval
LabelOf(t) ==
  IF t <= 2 * 32 THEN "freezing"
  ELSE IF t <= 2 * 50 THEN "cold"
  ELSE IF t <= 2 * 65 THEN "cool"
  ELSE IF t <= 2 * 75 THEN "mild"
  ELSE IF t <= 2 * 85 THEN "warm"
  ELSE IF t <= 2 * 95 THEN "hot"
  ELSE "very_hot"

\* C8: get_weather_condition is total onto the seven labels: every finite
\* temperature lies in exactly one of the seven intervals, which are ordered
\* freezing < cold < cool < mild < warm < hot < very_hot, so the order in which
\* the mapping is scanned does not matter; NaN, which lies in none, gives mild.
C8_SevenIntervals ==
  pc = "labelled" =>
    /\ condition \in {"freezing", "cold", "cool", "mild", "warm", "hot", "very_hot"}
    /\ temp.k = "num" =>
         /\ Cardinality({i \in 1..Len(WEATHER_CONDITIONS) :
                           InRange(WEATHER_CONDITIONS[i], temp)}) = 1
         /\ \A i \in 1..Len(WEATHER_CONDITIONS) :
              InRange(WEATHER_CONDITIONS[i], temp) => condition = WEATHER_CONDITIONS[i][3]
         /\ condition = LabelOf(temp.v)
    /\ temp = NaN =>
         /\ \A i \in 1..Len(WEATHER_CONDITIONS) : ~InRange(WEATHER_CONDITIONS[i], temp)
         /\ condition = "mild"

C8_Witness == pc = "labelled" /\ temp = NaN /\ condition = "mild"

NullCount(c) == Cardinality(csv.nulls[c])

\* the rows of a retained column hold the latest earlier non-null value
ForwardFilled(c) ==
  \A i \in 1..Min2(csv.n, MaxNullPos + 1) :
    LET src == CellSrc(loaded.weather, c, i)
    IN  /\ src = 0 <=> \A j \in 1..i : j \in csv.nulls[c]
        /\ src # 0 => /\ src <= i
                      /\ src \notin csv.nulls[c]
                      /\ \A j \in (src + 1)..i : j \in csv.nulls[c]

\* C10 as stated: a column is dropped iff its null fraction exceeds 5%; a column
\* at 4% or at exactly 5% is retained and forward-filled.
C10_DropAbove5Pct ==
  loaded.success =>
    \A c \in CsvColumns :
      /\ c \notin loaded.weather.cols <=> 100 * NullCount(c) > 5 * csv.n
      /\ c \in loaded.weather.cols => ForwardFilled(c)

\* C10 amended: a column is dropped iff its null fraction is at least 5%; a
\* column below 5% (e.g. 4%) is retained and forward-filled, a column at exactly
\* 5% or above (e.g. 6%) is removed.
C10_DropFrom5Pct ==
  loaded.success =>
    \A c \in CsvColumns :
      /\ c \notin loaded.weather.cols <=> 100 * NullCount(c) >= 5 * csv.n
      /\ c \in loaded.weather.cols => ForwardFilled(c)

C10_Witness ==
  /\ loaded.success
  /\ NullCount("prcp") > 0 /\ 100 * NullCount("prcp") = 5 * csv.n
  /\ "prcp" \notin loaded.weather.cols
  /\ NullCount("tmax") > 0 /\ "tmax" \in loaded.weather.cols

\* ------------------------------------------------------------------- C11
\* the lines "Prediction error" printed so far: the steps at which a predictor
\* raised
PredictionErrors == {i \in DOMAIN log : log[i] = "Prediction error"}

\* C11: a predictor failure at any step is recoverable: the step's predicted
\* maximum and minimum are the working row's previous tmax and tmin plus noise,
\* the point is still emitted, the working row still carries the new values, and
\* the loop goes on to produce all h points.
C11_FallbackRecovers ==
  /\ [][(pc = "loop" /\ Len(log') = Len(log) + 1) =>
          /\ pc' = "loop" /\ day' = day + 1
          /\ Len(future_predictions') = Len(future_predictions) + 1
          /\ \E noise \in NoiseDraws :
               /\ future_predictions'[day'].predicted_tmax =
                    last_known.row["tmax"] + noise[1]
               /\ future_predictions'[day'].predicted_tmin =
                    last_known.row["tmin"] + noise[2]
          /\ last_known'.row["tmax"] = future_predictions'[day'].predicted_tmax
          /\ last_known'.row["tmin"] = future_predictions'[day'].predicted_tmin]_vars
  /\ []((Generated /\ PredictionErrors # {}) =>
          result.success /\ Len(DailyForecast) = req.days)

C11_Witness ==
  /\ pc = "done" /\ response = 200
  /\ req.days >= 2 /\ Cardinality(PredictionErrors) = req.days
  /\ Len(DailyForecast) = req.days

\* ------------------------------------------------------------------- C12
\* C12: run_forecast never raises: every fatal error in loading, training or
\* generating comes back as (None, False, message) with no partial result, a
\* loading failure returns before any training or forecasting, and the success
\* outcome is (results, True, message) with results that are not None.
C12_NeverRaises ==
  /\ pc \in {"respond", "done"} =>
       /\ result # NoResult
       /\ IF result.success
            THEN /\ ~result.results.none
                 /\ loaded.success /\ trained = "ok"
                 /\ result.results.daily_forecast = future_predictions
            ELSE /\ result.results.none
                 /\ result.results.daily_forecast = <<>>
                 /\ result.results.historical_data = NoHistory
  /\ pc \notin {"respond", "done"} => result = NoResult
  /\ (pc # "load" /\ ~loaded.success) =>
       /\ pc \in {"respond", "done"}
       /\ ~result.success /\ result.message = <<"Error loading data", "">>
       /\ trained = "no" /\ model_results = NoModels
       /\ last_known = NoRow /\ future_predictions = <<>>

C12_Witness ==
  /\ pc = "done" /\ response = 500
  /\ trained = "ok" /\ historical_data # NoHistory
  /\ ~result.success /\ result.results.none

\* ------------------------------------------------------------------- C13
\* the season of a date <<year, month, day>>: months 12, 1, 2 winter; 3, 4, 5
\* spring; 6, 7, 8 summer; 9, 10, 11 fall
SeasonOfDate(date) ==
  CASE date[2] \in {12, 1, 2}  -> "winter"
    [] date[2] \in {3, 4, 5}   -> "spring"
    [] date[2] \in {6, 7, 8}   -> "summer"
    [] date[2] \in {9, 10, 11} -> "fall"

RECURSIVE SetSum(_, _)
\* the sum of f over the set S
SetSum(f, S) ==
  IF S = {} THEN 0
  ELSE LET x == CHOOSE y \in S : TRUE IN f[x] + SetSum(f, S \ {x})

\* run_forecast has returned a forecast
Succeeded == pc \in {"respond", "done"} /\ result.success

\* C13: the seasonal summary has an entry for exactly the seasons that own at
\* least one point of the sequence; an entry's count is the number of its points
\* and its avg_tmax / avg_tmin are the sums of their predicted_tmax /
\* predicted_tmin over that count; the counts sum to the length of the sequence.
C13_SeasonalSummary ==
  Succeeded =>
    LET points  == DailyForecast
        summary == result.results.seasonal_summary
        of(s)   == {k \in 1..Len(points) : SeasonOfDate(points[k].date) = s}
        tmax    == [k \in 1..Len(points) |-> points[k].predicted_tmax]
        tmin    == [k \in 1..Len(points) |-> points[k].predicted_tmin]
    IN  /\ DOMAIN summary =
             {s \in {"winter", "spring", "summer", "fall"} : of(s) # {}}
        /\ \A s \in DOMAIN summary :
             /\ summary[s].count = Cardinality(of(s))
             /\ summary[s].avg_tmax.den # 0 /\ summary[s].avg_tmin.den # 0
             /\ summary[s].avg_tmax.num * Cardinality(of(s)) =
                  SetSum(tmax, of(s)) * summary[s].avg_tmax.den
             /\ summary[s].avg_tmin.num * Cardinality(of(s)) =
                  SetSum(tmin, of(s)) * summary[s].avg_tmin.den
        /\ SetSum([s \in DOMAIN summary |-> summary[s].count], DOMAIN summary) =
             Len(points)

C13_Witness ==
  /\ Succeeded
  /\ DOMAIN result.results.seasonal_summary = {"winter", "spring"}
  /\ result.results.seasonal_summary["winter"].count = 2
  /\ DailyForecast[1].predicted_tmax # DailyForecast[2].predicted_tmax

\* ------------------------------------------------------------------- C14
\* C14: extreme_days.hottest is the earliest point among those with the maximum
\* predicted_tmax, extreme_days.coldest the earliest point among those with the
\* minimum predicted_tmin; both are points of the sequence.
C14_ExtremeDays ==
  Succeeded =>
    LET points  == DailyForecast
        extreme == result.results.extreme_days
    IN  /\ \E i \in 1..Len(points) :
             /\ extreme.hottest = points[i]
             /\ \A j \in 1..Len(points) :
                  /\ points[j].predicted_tmax <= points[i].predicted_tmax
                  /\ j < i => points[j].predicted_tmax < points[i].predicted_tmax
        /\ \E i \in 1..Len(points) :
             /\ extreme.coldest = points[i]
             /\ \A j \in 1..Len(points) :
                  /\ points[j].predicted_tmin >= points[i].predicted_tmin
                  /\ j < i => points[j].predicted_tmin > points[i].predicted_tmin

C14_Witness ==
  /\ Succeeded /\ Len(DailyForecast) >= 3
  /\ DailyForecast[2].predicted_tmax = DailyForecast[3].predicted_tmax
  /\ DailyForecast[1].predicted_tmax < DailyForecast[2].predicted_tmax
  /\ result.results.extreme_days.hottest = DailyForecast[2]
  /\ DailyForecast[1].predicted_tmin = DailyForecast[3].predicted_tmin
  /\ DailyForecast[2].predicted_tmin > DailyForecast[1].predicted_tmin
  /\ result.results.extreme_days.coldest = DailyForecast[1]

\* ------------------------------------------------------------------- C15
\* the candidate train_models must retain for a target: the earliest of those
\* with the lowest test RMSE
LowestRmse(t) ==
  CHOOSE i \in 1..Len(Candidates) :
    \A j \in 1..Len(Candidates) :
      /\ fit[t][i].test_rmse <= fit[t][j].test_rmse
      /\ j < i => fit[t][j].test_rmse > fit[t][i].test_rmse

\* C15: for each target train_models retains the candidate with the lowest test
\* RMSE among Random Forest, Gradient Boosting, Linear Regression, the earliest
\* of them on a tie; the reported name, the reported metrics and the model object
\* kept for prediction all belong to that candidate, and the maximum and the
\* minimum are selected independently.
C15_BestByTestRmse ==
  (pc # "legacy_train" /\ trained = "ok") =>
    /\ model_results.model_objects["max"] = [target |-> "max", estimator |-> LowestRmse("max")]
    /\ model_results.best_model_name_max = Candidates[LowestRmse("max")]
    /\ model_results.metrics_max = fit["max"][LowestRmse("max")]
    /\ model_results.model_objects["min"] = [target |-> "min", estimator |-> LowestRmse("min")]
    /\ model_results.best_model_name_min = Candidates[LowestRmse("min")]
    /\ model_results.metrics_min = fit["min"][LowestRmse("min")]

C15_Witness ==
  /\ trained = "ok"
  /\ fit["max"][1].test_rmse > fit["max"][2].test_rmse
  /\ fit["max"][2].test_rmse = fit["max"][3].test_rmse
  /\ fit["max"][2].test_r2 # fit["max"][3].test_r2
  /\ model_results.best_model_name_max = "Gradient Boosting"
  /\ model_results.metrics_max = fit["max"][2]
  /\ model_results.best_model_name_min = "Linear Regression"

\* ------------------------------------------------------------------- C16
\* the row of the series the working row was seeded from
SeedRowIndex ==
  IF ReqValidStart THEN SeedOf(loaded.weather, ReqStart.ts) ELSE loaded.weather.n

CarryColumns == {"tmax", "tmin", "target_tmax", "target_tmin", "temp_range"}

\* C16: the working row that is the predictor input of step k + 1 has tmax and
\* target_tmax equal to the maximum emitted at step k, tmin and target_tmin equal
\* to the minimum emitted at step k, and temp_range equal to their difference; at
\* step 0 they are the seed row's historical values; nothing re-anchors the row
\* to the series.
C16_AutoregressiveCarry ==
  pc \in {"loop", "legacy_loop"} =>
    IF day = 0
      THEN \A c \in CarryColumns :
             last_known.row[c] = CellValue(loaded.weather, c, SeedRowIndex)
      ELSE /\ last_known.row["tmax"] = future_predictions[day].predicted_tmax
           /\ last_known.row["target_tmax"] = future_predictions[day].predicted_tmax
           /\ last_known.row["tmin"] = future_predictions[day].predicted_tmin
           /\ last_known.row["target_tmin"] = future_predictions[day].predicted_tmin
           /\ last_known.row["temp_range"] =
                future_predictions[day].predicted_tmax
                  - future_predictions[day].predicted_tmin

C16_Witness ==
  /\ pc = "loop" /\ day = 2 /\ day < req.days
  /\ future_predictions[1].predicted_tmax # future_predictions[2].predicted_tmax
  /\ last_known.row["tmax"] = future_predictions[2].predicted_tmax
  /\ last_known.row["tmax"] # CellValue(loaded.weather, "tmax", SeedRowIndex)
  /\ last_known.row["temp_range"] # CellValue(loaded.weather, "temp_range", SeedRowIndex)

\* ------------------------------------------------------------------- C17
\* the seasons in the order of the codes 1..4 the loop writes
SeasonNames == <<"winter", "spring", "summer", "fall">>

\* C17: at every step the time-derived fields of the working row (dayofyear,
\* month, week, season, sin_day, cos_day) are those of the date stamped on that
\* step's output point, every other auxiliary column keeps the seed row's value,
\* and the series handed to simple_generate_forecast is never modified.
C17_TimeFeaturesFollowDate ==
  /\ (pc = "loop" /\ day >= 1) =>
       LET date == future_predictions[day].date
           ts   == strptime(date)
       IN  /\ last_known.index = ts
           /\ last_known.row["dayofyear"] = DayOfYear(ts)
           /\ last_known.row["month"] = date[2]
           /\ last_known.row["week"] = IsoWeek(ts)
           /\ SeasonNames[last_known.row["season"]] = SeasonOfDate(date)
           /\ last_known.row["sin_day"] = SinDay(DayOfYear(ts))
           /\ last_known.row["cos_day"] = CosDay(DayOfYear(ts))
           /\ DOMAIN last_known.row = loaded.weather.cols \cup TimeColumns
           /\ \A c \in DOMAIN last_known.row \ (TimeColumns \cup CarryColumns) :
                last_known.row[c] = CellValue(loaded.weather, c, SeedRowIndex)
  /\ pc \in {"seed", "hist", "pstart", "loop"} => loaded = load_data(csv)
  /\ (Generated /\ loaded.success) => loaded = load_data(csv)

C17_Witness ==
  /\ pc = "loop" /\ day >= 2
  /\ "prcp" \in DOMAIN last_known.row
  /\ future_predictions[day].date[1] # future_predictions[1].date[1]
  /\ last_known.row["week"] # CellValue(loaded.weather, "week", SeedRowIndex)
  /\ last_known.row["month"] # CellValue(loaded.weather, "month", SeedRowIndex)

\* ------------------------------------------------------------------- C18
\* C18: for a table of N >= 2 rows without nulls in tmax and tmin, load_data sets
\* target_tmax[i] = tmax[i + 1] and target_tmin[i] = tmin[i + 1] for every row but
\* the last, keeps the last row with the targets of the row before it (so its
\* target_tmax is its own tmax), and leaves the length of the series unchanged.
C18_NextDayTargets ==
  (loaded.success /\ csv.n >= 2 /\ csv.nulls["tmax"] = {} /\ csv.nulls["tmin"] = {}) =>
    LET wd == loaded.weather
    IN  /\ wd.n = csv.n
        /\ {"target_tmax", "target_tmin"} \subseteq wd.cols
        /\ \A i \in 1..(wd.n - 1) :
             /\ CellValue(wd, "target_tmax", i) = CellValue(wd, "tmax", i + 1)
             /\ CellValue(wd, "target_tmin", i) = CellValue(wd, "tmin", i + 1)
        /\ CellValue(wd, "target_tmax", wd.n) = CellValue(wd, "target_tmax", wd.n - 1)
        /\ CellValue(wd, "target_tmin", wd.n) = CellValue(wd, "target_tmin", wd.n - 1)
        /\ CellValue(wd, "target_tmax", wd.n) = CellValue(wd, "tmax", wd.n)
        /\ CellValue(wd, "target_tmin", wd.n) = CellValue(wd, "tmin", wd.n)

C18_Witness ==
  /\ pc = "train" /\ loaded.success
  /\ csv.n > 5 * TestCap /\ csv.nulls["tmax"] = {} /\ csv.nulls["tmin"] = {}
  /\ loaded.weather.n = csv.n
  /\ CellValue(loaded.weather, "target_tmax", csv.n) = RawValue("tmax", csv.n)
  /\ CellValue(loaded.weather, "target_tmax", 1) = RawValue("tmax", 2)

\* ------------------------------------------------------------------- C19
\* the interval max(0, 0.9 p) .. 1.1 p of a predicted value p, in tenths
ClampedTenth(p, interval) ==
  /\ interval.lower >= 0
  /\ interval.lower = (IF 9 * p > 0 THEN 9 * p ELSE 0)
  /\ interval.upper = 11 * p

\* C19: for every point simple_generate_forecast emits and every predicted value,
\* positive, zero or negative, the lower bound of both confidence intervals is
\* non-negative, equal to max(0, 0.9 * prediction), and the upper bound is
\* 1.1 * prediction.
C19_LowerBoundClamped ==
  pc \in {"loop", "respond", "done"} =>
    \A k \in 1..Len(future_predictions) :
      /\ ClampedTenth(future_predictions[k].predicted_tmax,
                      future_predictions[k].tmax_confidence_interval)
      /\ ClampedTenth(future_predictions[k].predicted_tmin,
                      future_predictions[k].tmin_confidence_interval)

C19_Witness ==
  /\ pc = "done" /\ response = 200
  /\ \E k \in 1..Len(DailyForecast) :
       /\ DailyForecast[k].predicted_tmin < 0
       /\ DailyForecast[k].tmin_confidence_interval.lower = 0
       /\ DailyForecast[k].tmin_confidence_interval.upper < 0
  /\ \E k \in 1..Len(DailyForecast) : DailyForecast[k].predicted_tmin = 0
  /\ \E k \in 1..Len(DailyForecast) : DailyForecast[k].tmax_confidence_interval.lower > 0

\* ------------------------------------------------------------------- C20
\* the final R2 values simple_train_models hands to the learning curves
FinalR2(t) == fit[t][1].test_r2

\* C20: for every final R2, values below 0.1 and negative ones included, and the
\* default training sizes, r2_scores has one entry per training size, its last
\* entry is the final R2, and no earlier entry exceeds the final R2.
C20_CurveBelowFinal ==
  (pc # "train" /\ trained = "ok") =>
    \A t \in Targets :
      LET curve == IF t = "max" THEN model_results.r2_curve_max
                   ELSE model_results.r2_curve_min
      IN  /\ Len(curve.r2_scores) = Len(curve.train_sizes)
          /\ curve.r2_scores[Len(curve.r2_scores)] = FinalR2(t)
          /\ \A k \in 1..(Len(curve.r2_scores) - 1) : curve.r2_scores[k] <= FinalR2(t)

\* ------------------------------------------------------------------- C21
\* an interval in tenths of a degree holds the predicted value p
Brackets(p, interval) == interval.lower <= 10 * p /\ 10 * p <= interval.upper

\* C21: every confidence interval simple_generate_forecast emits brackets its
\* point prediction: lower <= predicted value <= upper, for the tmax and the tmin
\* interval of every point and for every predicted value, negative ones included.
C21_IntervalBrackets ==
  pc \in {"loop", "respond", "done"} =>
    \A k \in 1..Len(future_predictions) :
      /\ Brackets(future_predictions[k].predicted_tmax,
                  future_predictions[k].tmax_confidence_interval)
      /\ Brackets(future_predictions[k].predicted_tmin,
                  future_predictions[k].tmin_confidence_interval)

\* the intervals of the predictions that are not negative do bracket them
NonNegativeBracketed ==
  pc \in {"loop", "respond", "done"} =>
    \A k \in 1..Len(future_predictions) :
      /\ future_predictions[k].predicted_tmax >= 0 =>
           Brackets(future_predictions[k].predicted_tmax,
                    future_predictions[k].tmax_confidence_interval)
      /\ future_predictions[k].predicted_tmin >= 0 =>
           Brackets(future_predictions[k].predicted_tmin,
                    future_predictions[k].tmin_confidence_interval)

\* ------------------------------------------------------------------- C22
\* the window holds the last min(365, N) rows of the frame, in order
LastRowsOf(frame, window) ==
  LET k == Min2(365, frame.n)
  IN  /\ Len(window.dates) = k /\ Len(window.tmax) = k /\ Len(window.tmin) = k
      /\ \A j \in 1..k :
           /\ window.dates[j] = strftime(DateAt(frame, frame.n - k + j))
           /\ window.tmax[j] = CellValue(frame, "tmax", frame.n - k + j)
           /\ window.tmin[j] = CellValue(frame, "tmin", frame.n - k + j)

\* C22: the historical window simple_generate_forecast (and generate_forecast)
\* returns covers the most recent min(365, N) rows of the series: three lists of
\* that length, the dates the last min(365, N) series dates in increasing order
\* up to the last one, each tmax / tmin that row's value, for every series with
\* strictly increasing dates, series with missing calendar days included.
C22_HistoricalWindow ==
  /\ pc \in {"pstart", "loop", "legacy_loop"} =>
       LastRowsOf(loaded.weather, historical_data)
  /\ Succeeded => LastRowsOf(loaded.weather, result.results.historical_data)

\* on a series without missing days the window is the last min(365, N) rows
GaplessWindow ==
  (pc \in {"pstart", "loop", "legacy_loop"} /\ loaded.weather.gap = {}) =>
    LastRowsOf(loaded.weather, historical_data)

\* ------------------------------------------------------------------- C23
\* C23: load_data succeeds whenever the table has a parsable date column and
\* numeric tmax and tmin columns: the null-fraction drop never removes tmax or
\* tmin, so a table whose tmax or tmin has a null fraction of 5% or more still
\* yields a series, not a loading failure.
C23_LoadKeepsTemperatures ==
  (pc # "load" /\ csv.readable /\ csv.n >= 1
     /\ NullCount("tmax") < csv.n /\ NullCount("tmin") < csv.n) =>
    /\ loaded.success
    /\ {"tmax", "tmin"} \subseteq loaded.weather.cols
    /\ loaded.weather.n = csv.n

\* load_data fails exactly on the tables whose tmax or tmin reaches 5% of nulls
\* (and on the table without rows)
LoadFailsFrom5Pct ==
  (pc # "load" /\ csv.readable) =>
    (loaded.success <=>
       /\ csv.n >= 1
       /\ 100 * NullCount("tmax") < 5 * csv.n
       /\ 100 * NullCount("tmin") < 5 * csv.n)

====
